---- MODULE Spec2Model ----
(***************************************************************************)
(* Conversation store and generation requests of RAICES_api_generative_ai. *)
(*                                                                         *)
(* Texts (queries, responses, log files) are sequences of tokens.  The    *)
(* labels and markers the log format is built from are single tokens:     *)
(*   "TS"  = "Timestamp: "      "PQ"  = "Pregunta: "                       *)
(*   "RS"  = "Respuesta: "      "FIN" = "--- Fin de respuesta ---"         *)
(*   "NL"  = "\n"                                                          *)
(* every other token is an ordinary character.                            *)
(***************************************************************************)
EXTENDS Integers, Sequences, FiniteSets, TLC

\* ------------------------------------------------------------------ bounds
MaxTurns == 3       \* turns appended in one behaviour without I/O faults
MaxIOTurns == 2     \* turns appended in one behaviour with I/O faults

\* Session ids: the ones clients invent and the ones uuid4 can return.
ClientIds == {"s1"}
Uuids == {"u1"}
SessionIds == ClientIds \cup Uuids
None == "None"

\* Query texts a caller may send.  <<"a", "NL">> ends in a newline, as the
\* batch prompts of format_requirements_for_prompt do.
Queries == {<<"a">>, <<"a", "NL">>}
\* Normalized answers (format_response output: no leading/trailing blank).
Answers == {<<"x">>}
Contexts == {"ctx"}

\* ------------------------------------------------------- text primitives
Whitespace == {"NL"}

\* str.count(marker) for a one-token marker
RECURSIVE Count(_, _)
Count(s, tok) ==
    IF s = <<>> THEN 0
    ELSE (IF Head(s) = tok THEN 1 ELSE 0) + Count(Tail(s), tok)

\* str.find(pat): 1-based index of the first occurrence, 0 when absent
Find(s, pat) ==
    LET hits == {i \in 1..(Len(s) - Len(pat) + 1) :
                    SubSeq(s, i, i + Len(pat) - 1) = pat}
    IN IF hits = {} THEN 0 ELSE CHOOSE i \in hits : \A j \in hits : i <= j

\* str.split(sep): every piece, left to right, empty pieces kept
RECURSIVE Split(_, _)
Split(s, sep) ==
    LET i == Find(s, sep)
    IN IF i = 0 THEN <<s>>
       ELSE <<SubSeq(s, 1, i - 1)>> \o Split(SubSeq(s, i + Len(sep), Len(s)), sep)

\* str.split(sep, 1): at most two pieces
SplitOnce(s, sep) ==
    LET i == Find(s, sep)
    IN IF i = 0 THEN <<s>>
       ELSE <<SubSeq(s, 1, i - 1), SubSeq(s, i + Len(sep), Len(s))>>

\* str.strip()
RECURSIVE LStrip(_)
LStrip(s) ==
    IF s # <<>> /\ Head(s) \in Whitespace THEN LStrip(Tail(s)) ELSE s

RECURSIVE RStrip(_)
RStrip(s) ==
    IF s # <<>> /\ s[Len(s)] \in Whitespace
    THEN RStrip(SubSeq(s, 1, Len(s) - 1)) ELSE s

Strip(s) == RStrip(LStrip(s))

RECURSIVE Concat(_)
Concat(ss) == IF ss = <<>> THEN <<>> ELSE Head(ss) \o Concat(Tail(ss))

\* ------------------------------------------------------------ log format
EndMarker == <<"FIN">>
EntrySeparator == <<"FIN", "NL", "NL">>

\* The four f.write calls of one history entry.
EntryWrites(entry) ==
    << <<"TS", entry.timestamp, "NL">>,
       <<"PQ">> \o entry.query \o <<"NL", "NL">>,
       <<"RS">> \o entry.response \o <<"NL">>,
       <<"FIN", "NL", "NL">> >>

EntryText(entry) == Concat(EntryWrites(entry))

\* The write calls for history[from..Len(history)], in order.
RECURSIVE PendingWrites(_, _)
PendingWrites(history, from) ==
    IF from > Len(history) THEN <<>>
    ELSE EntryWrites(history[from]) \o PendingWrites(history, from + 1)

NoEntry == [query |-> <<"NoEntry">>, response |-> <<>>, timestamp |-> "NoEntry"]

\* _parse_conversation_entry: NoEntry stands for Python's None
ParseEntry(entry) ==
    IF Strip(entry) = <<>> THEN NoEntry
    ELSE LET parts == SplitOnce(entry, <<"PQ">>)
         IN IF Len(parts) < 2 THEN NoEntry
            ELSE LET timestamp_parts == SplitOnce(parts[2], <<"NL", "NL">>)
                 IN IF Len(timestamp_parts) < 2 THEN NoEntry
                    ELSE LET response_parts == SplitOnce(timestamp_parts[2], <<"RS">>)
                         IN IF Len(response_parts) < 2 THEN NoEntry
                            ELSE [query |-> timestamp_parts[1],
                                  response |-> Strip(response_parts[2]),
                                  timestamp |-> "Imported"]

HistoryQueries(history) == {history[i].query : i \in 1..Len(history)}

\* _add_unique_entry_to_history without the duplicate test
AddAlways(history, entry) == Append(history, entry)

\* _add_unique_entry_to_history on a history value
AddUnique(history, entry) ==
    IF entry.query \notin HistoryQueries(history)
    THEN Append(history, entry) ELSE history

\* the loop of _load_single_conversation_history as it would be if the first
\* block that does not parse ended the loading of the file
RECURSIVE MergeEntriesAbort(_, _)
MergeEntriesAbort(history, entries) ==
    IF entries = <<>> THEN history
    ELSE LET e == ParseEntry(Head(entries))
         IN IF e = NoEntry /\ Strip(Head(entries)) # <<>> THEN history
            ELSE MergeEntriesAbort(IF e = NoEntry THEN history
                                   ELSE AddUnique(history, e),
                                   Tail(entries))

\* the loop of _load_single_conversation_history over the split entries
RECURSIVE MergeEntries(_, _)
MergeEntries(history, entries) ==
    IF entries = <<>> THEN history
    ELSE LET e == ParseEntry(Head(entries))
         IN MergeEntries(IF e = NoEntry THEN history ELSE AddUnique(history, e),
                         Tail(entries))

NewConversation == [history |-> <<>>, last_context |-> None]

\* _load_single_conversation_history as it would be if it replaced the
\* session's in-memory state by what the file holds
LoadSingleOverwrite(convs, s, content) ==
    [NewConversation EXCEPT !.history =
        MergeEntries(<<>>, Split(content, EntrySeparator))]

\* _load_single_conversation_history for a file that was read
LoadSingle(convs, s, content) ==
    LET base == IF s \in DOMAIN convs THEN convs[s] ELSE NewConversation
    IN [base EXCEPT !.history = MergeEntries(base.history,
                                             Split(content, EntrySeparator))]

\* ------------------------------------------------------------------ state
VARIABLES
    conversations,  \* ConversationManager.conversations: id -> [history, last_context]
    files,          \* conversation_histories/<id>.txt: id -> file content
    dirExists,      \* whether the conversation_histories directory exists
    issued,         \* ids uuid4 has returned so far
    last_call,      \* the store call made last: its argument and what it returned
    faulted,        \* an I/O fault has struck (single-fault model)
    appended,       \* turns appended so far
    requests,       \* generate_content tasks: where each one is
    calc,           \* the call of a formatting function: its input and its result
    route           \* a /generate-epics or /generate-user-stories request

vars == <<conversations, files, dirExists, issued, last_call, faulted, appended,
          requests, calc, route>>

Requests == {1, 2}

\* op: the method; session_id: its argument; result: what it returned ("raised"
\* when it raised); save: what the save_conversation_history it ran returned;
\* was: what held when it was called ("known"/"unknown"/"absent" id for a
\* create, "repeat" for a save that follows a successful save of the same
\* session with no call in between).
Call(op, sid, result, save, was) ==
    [op |-> op, session_id |-> sid, result |-> result, save |-> save, was |-> was]

IdWas(convs, arg) ==
    IF arg = None THEN "absent"
    ELSE IF arg \in DOMAIN convs THEN "known" ELSE "unknown"

IoFaults == {"none", "mkdir", "open", "read", "write"}
WritesPerEntry == 4

\* dict without a key
Without(f, s) == [x \in DOMAIN f \ {s} |-> f[x]]

\* dict with a key set
With(f, s, v) == [x \in DOMAIN f \cup {s} |-> IF x = s THEN v ELSE f[x]]

\* ------------------------------------------------- save_conversation_history
\* save_conversation_history as it would be if it ignored the marker count and
\* wrote the whole history on every call.
SaveOutcomeRewrite(convs, fls, dir, s, fault, k) ==
    IF s \notin DOMAIN convs
    THEN [files |-> fls, dirExists |-> dir, result |-> "False"]
    ELSE LET old == IF s \in DOMAIN fls THEN fls[s] ELSE <<>>
         IN [files |-> With(fls, s, old \o Concat(PendingWrites(convs[s].history, 1))),
             dirExists |-> TRUE, result |-> "True"]

\* What one call of save_conversation_history(s) does to the disk and what it
\* returns, under the I/O fault `fault` (a write fault strikes after k of the
\* pending f.write calls).  result is "True", "False" or "raised".
SaveOutcome(convs, fls, dir, s, fault, k) ==
    IF s \notin DOMAIN convs
    THEN [files |-> fls, dirExists |-> dir, result |-> "False"]
    ELSE IF fault = "mkdir"
    THEN [files |-> fls, dirExists |-> dir, result |-> "raised"]
    ELSE IF fault = "open"
    THEN [files |-> fls, dirExists |-> TRUE, result |-> "False"]
    ELSE LET old == IF s \in DOMAIN fls THEN fls[s] ELSE <<>>
             saved_count == Count(old, "FIN")
             writes == PendingWrites(convs[s].history, saved_count + 1)
         IN IF fault = "read"
            THEN [files |-> With(fls, s, old), dirExists |-> TRUE, result |-> "False"]
            ELSE IF fault = "write"
            THEN [files |-> With(fls, s, old \o Concat(SubSeq(writes, 1, k))),
                  dirExists |-> TRUE, result |-> "False"]
            ELSE [files |-> With(fls, s, old \o Concat(writes)),
                  dirExists |-> TRUE, result |-> "True"]

\* Which faults can strike a save of s in the given state: makedirs only fails
\* when it has a directory to create, a write only when there is one.
SaveFaultPossible(convs, fls, dir, s, fault, k) ==
    /\ fault # "none" => s \in DOMAIN convs
    /\ fault = "mkdir" => ~dir
    /\ fault = "write" =>
          LET old == IF s \in DOMAIN fls THEN fls[s] ELSE <<>>
              writes == PendingWrites(convs[s].history, Count(old, "FIN") + 1)
          IN k \in 0..(Len(writes) - 1)
    /\ fault # "write" => k = 0

\* single-fault model: at most one I/O fault in a behaviour
CountFault(fault) ==
    /\ fault # "none" => ~faulted
    /\ faulted' = (faulted \/ fault # "none")

\* load_conversation_histories as it would be if the first file that fails to
\* open or read ended the scan.
LoadAllAbort(convs, fls, dir, unreadable) ==
    IF ~dir \/ unreadable # {} THEN convs
    ELSE [s \in DOMAIN convs \cup DOMAIN fls |->
             IF s \in DOMAIN fls THEN LoadSingle(convs, s, fls[s]) ELSE convs[s]]

\* What load_conversation_histories does to the in-memory map when the files
\* in `unreadable` fail to open or read.
LoadAll(convs, fls, dir, unreadable) ==
    IF ~dir THEN convs
    ELSE LET loaded == DOMAIN fls \ unreadable
         IN [s \in DOMAIN convs \cup loaded |->
                IF s \in loaded THEN LoadSingle(convs, s, fls[s]) ELSE convs[s]]

IdleRequest == [pc |-> "idle", session_id |-> None, query |-> <<>>, answer |-> <<>>]

\* ------------------------------------------------------------------ init
NoCalc == [fn |-> "none"]
NoRoute == [pc |-> "none"]

\* the store after ConversationManager.__init__ found no log directory
StoreInit ==
    /\ conversations = <<>>
    /\ files = <<>>
    /\ dirExists = FALSE
    /\ issued = {}
    /\ last_call = Call("init", None, None, "none", "none")
    /\ faulted = FALSE
    /\ appended = 0
    /\ requests = [r \in Requests |-> IdleRequest]

Init ==
    /\ StoreInit
    /\ calc = NoCalc
    /\ route = NoRoute

\* ---------------------------------------------------------- store actions
\* create_conversation's effect on the map once the id is decided
Created(convs, sid) ==
    IF sid \notin DOMAIN convs THEN With(convs, sid, NewConversation) ELSE convs

\* create_conversation as it would be if it generated an identifier for every
\* session id that is not in the map.
CreateConversationRegenerate(arg) ==
    \E sid \in SessionIds :
        /\ IF arg \in DOMAIN conversations THEN sid = arg ELSE sid \in Uuids \ issued
        /\ issued' = IF arg \in DOMAIN conversations THEN issued ELSE issued \cup {sid}
        /\ conversations' = Created(conversations, sid)
        /\ last_call' = Call("create_conversation", arg, sid, "none",
                             IdWas(conversations, arg))
        /\ UNCHANGED <<files, dirExists, faulted, appended, requests, calc, route>>

\* ConversationManager.create_conversation(session_id=None)
CreateConversation(arg) ==
    \E sid \in SessionIds :
        /\ IF arg = None THEN sid \in Uuids \ issued ELSE sid = arg
        /\ issued' = IF arg = None THEN issued \cup {sid} ELSE issued
        /\ conversations' = Created(conversations, sid)
        /\ last_call' = Call("create_conversation", arg, sid, "none",
                             IdWas(conversations, arg))
        /\ UNCHANGED <<files, dirExists, faulted, appended, requests, calc, route>>

\* ConversationManager.save_conversation_history / auto_save_history
SaveConversationHistory(s, fault, k) ==
    /\ SaveFaultPossible(conversations, files, dirExists, s, fault, k)
    /\ CountFault(fault)
    /\ LET out == SaveOutcome(conversations, files, dirExists, s, fault, k)
       IN /\ files' = out.files
          /\ dirExists' = out.dirExists
          /\ last_call' = Call("save_conversation_history", s, out.result, out.result,
                               IF last_call.save = "True" /\ last_call.session_id = s
                               THEN "repeat" ELSE "none")
    /\ UNCHANGED <<conversations, issued, appended, requests, calc, route>>

\* _update_conversation_history as it would be if it assigned the history
\* instead of appending to it.
WithTurnReplace(convs, s, query, answer, context) ==
    LET entry == [query |-> query, response |-> answer, timestamp |-> "t"]
    IN With(convs, s,
            [history |-> <<entry>>,
             last_context |-> IF context = None THEN convs[s].last_context
                              ELSE context])

\* The in-memory map after _update_conversation_history appended the turn and
\* stored the retrieved context (when the chain returned one).
WithTurn(convs, s, query, answer, context) ==
    LET entry == [query |-> query, response |-> answer, timestamp |-> "t"]
    IN With(convs, s,
            [history |-> Append(convs[s].history, entry),
             last_context |-> IF context = None THEN convs[s].last_context
                              ELSE context])

\* ContentGenerator._update_conversation_history: append, store the context,
\* auto-save.  Indexing a session that is not in the map raises KeyError.
UpdateConversationHistory(s, query, answer, context, fault, k) ==
    IF s \notin DOMAIN conversations
    THEN /\ fault = "none" /\ k = 0
         /\ last_call' = Call("_update_conversation_history", s, "raised", "none", "none")
         /\ UNCHANGED <<conversations, files, dirExists, issued, faulted, appended>>
    ELSE LET convs == WithTurn(conversations, s, query, answer, context)
             out == SaveOutcome(convs, files, dirExists, s, fault, k)
         IN /\ SaveFaultPossible(convs, files, dirExists, s, fault, k)
            /\ CountFault(fault)
            /\ conversations' = convs
            /\ appended' = appended + 1
            /\ files' = out.files
            /\ dirExists' = out.dirExists
            /\ last_call' = Call("_update_conversation_history", s,
                                 IF out.result = "raised" THEN "raised" ELSE None,
                                 out.result, "none")
            /\ UNCHANGED issued

UpdateCall(s, query, answer, context, fault, k) ==
    /\ UpdateConversationHistory(s, query, answer, context, fault, k)
    /\ UNCHANGED <<requests, calc, route>>

\* ConversationManager.load_conversation_histories
LoadConversationHistories(unreadable) ==
    /\ unreadable # {} => ~faulted
    /\ faulted' = (faulted \/ unreadable # {})
    /\ conversations' = LoadAll(conversations, files, dirExists, unreadable)
    /\ last_call' = Call("load_conversation_histories", None, None, "none", "none")
    /\ UNCHANGED <<files, dirExists, issued, appended, requests, calc, route>>

\* delete_conversation_history as it would be if it removed the file only.
DeleteFileOnly(s, fault) ==
    /\ fault = "remove" => s \in DOMAIN files
    /\ CountFault(fault)
    /\ files' = IF fault = "none" THEN Without(files, s) ELSE files
    /\ last_call' = Call("delete_conversation_history", s,
                         IF fault = "none" THEN "True" ELSE "False", "none", "none")
    /\ UNCHANGED <<conversations, dirExists, issued, appended, requests, calc, route>>

\* ConversationManager.delete_conversation_history
DeleteConversationHistory(s, fault) ==
    /\ fault = "remove" => s \in DOMAIN files
    /\ CountFault(fault)
    /\ conversations' = Without(conversations, s)
    /\ files' = IF fault = "none" THEN Without(files, s) ELSE files
    /\ last_call' = Call("delete_conversation_history", s,
                         IF fault = "none" THEN "True" ELSE "False", "none", "none")
    /\ UNCHANGED <<dirExists, issued, appended, requests, calc, route>>

\* Process restart: ConversationManager.__init__ starts from an empty map and
\* loads the logs; the tasks of the old process are gone.
Restart(unreadable) ==
    /\ unreadable # {} => ~faulted
    /\ faulted' = (faulted \/ unreadable # {})
    /\ conversations' = LoadAll(<<>>, files, dirExists, unreadable)
    /\ last_call' = Call("__init__", None, None, "none", "none")
    /\ requests' = [r \in Requests |-> IdleRequest]
    /\ UNCHANGED <<files, dirExists, issued, appended, calc, route>>

\* ------------------------------------------------------ generate_content
\* Assistant.generate_content is one cooperative task.  It is suspended only
\* inside ThinkingSteps.add_step (asyncio.sleep); rag_chain.invoke is a
\* synchronous call and ThinkingSteps.complete never yields.  pc names the
\* add_step the task is sleeping in.
Sleeping == {"sleep1", "sleep2", "sleep3", "sleep4", "sleep5"}

At(r, pc, fields) == [requests EXCEPT ![r] = [fields EXCEPT !.pc = pc]]

\* _manage_session, _configure_retriever, then the first add_step.
GenStart(r, arg, newchat, query) ==
    /\ requests[r].pc = "idle"
    /\ \E sid \in SessionIds :
        /\ IF arg = None THEN sid \in Uuids \ issued ELSE sid = arg
        /\ issued' = IF arg = None THEN issued \cup {sid} ELSE issued
        /\ conversations' =
              IF newchat \/ arg = None THEN Created(conversations, sid)
              ELSE IF arg \notin DOMAIN conversations THEN Created(conversations, sid)
              ELSE conversations
        /\ last_call' = Call("_manage_session", arg, sid, "none",
                             IdWas(conversations, arg))
        /\ requests' = At(r, "sleep1",
                          [requests[r] EXCEPT !.session_id = sid, !.query = query])
    /\ UNCHANGED <<files, dirExists, faulted, appended, calc, route>>

\* _prepare_prompt, then the second add_step.
GenPreparePrompt(r) ==
    /\ requests[r].pc = "sleep1"
    /\ requests' = At(r, "sleep2", requests[r])
    /\ UNCHANGED <<conversations, files, dirExists, issued, last_call, faulted, appended, calc, route>>

\* The third add_step.
GenSearchStep(r) ==
    /\ requests[r].pc = "sleep2"
    /\ requests' = At(r, "sleep3", requests[r])
    /\ UNCHANGED <<conversations, files, dirExists, issued, last_call, faulted, appended, calc, route>>

\* _execute_rag_chain as it would be if the turn were appended as soon as
\* rag_chain.invoke returned.
GenInvokeAppends(r, raises) ==
    /\ requests[r].pc = "sleep3"
    /\ requests' = At(r, IF raises THEN "raised_generate" ELSE "sleep4", requests[r])
    /\ conversations' =
          IF raises \/ requests[r].session_id \notin DOMAIN conversations
          THEN conversations
          ELSE WithTurn(conversations, requests[r].session_id, requests[r].query,
                        <<"x">>, None)
    /\ UNCHANGED <<files, dirExists, issued, last_call, faulted, appended, calc, route>>

\* _execute_rag_chain: rag_chain.invoke returns or raises; after it returned,
\* the fourth add_step.
GenInvoke(r, raises) ==
    /\ requests[r].pc = "sleep3"
    /\ requests' = At(r, IF raises THEN "raised_generate" ELSE "sleep4", requests[r])
    /\ UNCHANGED <<conversations, files, dirExists, issued, last_call, faulted, appended, calc, route>>

\* The fifth add_step.
GenSynthStep(r) ==
    /\ requests[r].pc = "sleep4"
    /\ requests' = At(r, "sleep5", requests[r])
    /\ UNCHANGED <<conversations, files, dirExists, issued, last_call, faulted, appended, calc, route>>

\* process_llm_response gives the normalized answer, then
\* _update_conversation_history, complete(), return.
GenFinish(r, answer, context, fault, k) ==
    /\ requests[r].pc = "sleep5"
    /\ UpdateConversationHistory(requests[r].session_id, requests[r].query,
                                 answer, context, fault, k)
    /\ requests' = At(r, IF last_call'.result = "raised"
                         THEN (IF last_call'.save = "raised"
                               THEN "raised_save" ELSE "raised_update")
                         ELSE "returned",
                      [requests[r] EXCEPT !.answer = answer])
    /\ UNCHANGED <<calc, route>>

\* The task is cancelled while it is suspended.
GenAbandon(r) ==
    /\ requests[r].pc \in Sleeping
    /\ requests' = At(r, "abandoned", requests[r])
    /\ UNCHANGED <<conversations, files, dirExists, issued, last_call, faulted, appended, calc, route>>

\* ------------------------------------------------------- specifications
KnownIds == ClientIds \cup issued

\* The store's operations, no I/O fault.
Next ==
    \/ \E arg \in KnownIds \cup {None} : CreateConversation(arg)
    \/ \E s \in KnownIds : SaveConversationHistory(s, "none", 0)
    \/ /\ appended < MaxTurns
       /\ \E s \in KnownIds, q \in Queries, a \in Answers, c \in Contexts \cup {None} :
              UpdateCall(s, q, a, c, "none", 0)
    \/ LoadConversationHistories({})
    \/ \E s \in KnownIds : DeleteConversationHistory(s, "none")
    \/ Restart({})

Spec == Init /\ [][Next]_vars

\* The store's operations under I/O faults.
NextIO ==
    \/ \E arg \in KnownIds \cup {None} : CreateConversation(arg)
    \/ \E s \in KnownIds, fault \in IoFaults, k \in 0..(WritesPerEntry - 1) :
          SaveConversationHistory(s, fault, k)
    \/ /\ appended < MaxIOTurns
       /\ \E s \in ClientIds, q \in Queries, a \in Answers, c \in Contexts \cup {None},
             fault \in IoFaults, k \in 0..(WritesPerEntry - 1) :
              UpdateCall(s, q, a, c, fault, k)
    \/ \E unreadable \in SUBSET (DOMAIN files) : LoadConversationHistories(unreadable)
    \/ \E s \in KnownIds, fault \in {"none", "remove"} : DeleteConversationHistory(s, fault)
    \/ \E unreadable \in SUBSET (DOMAIN files) : Restart(unreadable)

SpecIO == Init /\ [][NextIO]_vars

\* Concurrent generate_content tasks, with I/O faults in the auto-save.
NextReq ==
    \/ \E r \in Requests, arg \in KnownIds \cup {None}, newchat \in BOOLEAN,
          q \in Queries : GenStart(r, arg, newchat, q)
    \/ \E r \in Requests : GenPreparePrompt(r)
    \/ \E r \in Requests : GenSearchStep(r)
    \/ \E r \in Requests, raises \in BOOLEAN : GenInvoke(r, raises)
    \/ \E r \in Requests : GenSynthStep(r)
    \/ \E r \in Requests, a \in Answers, c \in Contexts \cup {None},
          fault \in IoFaults, k \in 0..(WritesPerEntry - 1) :
              GenFinish(r, a, c, fault, k)
    \/ \E r \in Requests : GenAbandon(r)

SpecReq == Init /\ [][NextReq]_vars

\* ================================================================ claims
Timestamps == {"t", "Imported"}

\* number of (non-overlapping) occurrences of pat in s
RECURSIVE CountSub(_, _)
CountSub(s, pat) ==
    LET i == Find(s, pat)
    IN IF i = 0 THEN 0
       ELSE 1 + CountSub(SubSeq(s, i + Len(pat), Len(s)), pat)

Pair(e) == <<e.query, e.response>>
Pairs(history) == [i \in 1..Len(history) |-> Pair(history[i])]

\* how many turns of the history carry this (query, response) pair
TurnsWith(history, pair) ==
    Cardinality({i \in 1..Len(history) : Pair(history[i]) = pair})

\* how many complete blocks of the file carry this (query, response) pair
BlocksWith(content, pair) ==
    LET Block(ts) == EntryText([query |-> pair[1], response |-> pair[2],
                                timestamp |-> ts])
    IN CountSub(content, Block("t")) + CountSub(content, Block("Imported"))

\* how many blocks of the file the loader reads back as this pair
ParsedWith(content, pair) ==
    LET entries == Split(content, EntrySeparator)
    IN Cardinality({i \in 1..Len(entries) :
                       /\ ParseEntry(entries[i]) # NoEntry
                       /\ Pair(ParseEntry(entries[i])) = pair})

\* blocks that stand for the pair: written for it, or read back as it
LogHolds(content, pair) ==
    IF BlocksWith(content, pair) >= ParsedWith(content, pair)
    THEN BlocksWith(content, pair) ELSE ParsedWith(content, pair)

History(s) == conversations[s].history

IsPrefix(a, b) == Len(a) <= Len(b) /\ SubSeq(b, 1, Len(a)) = a

QueryCount(history, q) ==
    Cardinality({i \in 1..Len(history) : history[i].query = q})

DistinctQueries(history) ==
    \A i, j \in 1..Len(history) : history[i].query = history[j].query => i = j

\* no label, no end marker and no blank line inside the text
DelimiterFree(text) ==
    /\ \A i \in 1..Len(text) : text[i] \notin {"PQ", "RS", "FIN", "TS"}
    /\ Find(text, <<"NL", "NL">>) = 0

\* ---------------------------------------------------------------- C1
\* C1: whenever a save_conversation_history call returned True, the session's
\* log file holds a block for every turn of its in-memory history.
C1_PersistWritesEveryTurn ==
    last_call.save = "True" =>
        LET s == last_call.session_id
        IN /\ s \in DOMAIN conversations
           /\ s \in DOMAIN files
           /\ \A i \in 1..Len(History(s)) :
                 LogHolds(files[s], Pair(History(s)[i]))
                    >= TurnsWith(History(s), Pair(History(s)[i]))

\* ---------------------------------------------------------------- C2
\* C2: a save_conversation_history call that directly follows a successful
\* save of the same session (no append in between) leaves the log file as it
\* is: it writes no block and the number of end markers does not change.
C2_PersistIdempotent ==
    [][(last_call'.op = "save_conversation_history" /\ last_call'.was = "repeat")
          => /\ files' = files
             /\ \A s \in DOMAIN files : Count(files'[s], "FIN") = Count(files[s], "FIN")]_vars

\* A second save in a row of a session that has turns, all of them on disk.
C2_Witness ==
    /\ last_call.op = "save_conversation_history"
    /\ last_call.was = "repeat"
    /\ last_call.result = "True"
    /\ last_call.session_id \in DOMAIN conversations
    /\ Len(History(last_call.session_id)) >= 1
    /\ Count(files[last_call.session_id], "FIN") = Len(History(last_call.session_id))

\* ---------------------------------------------------------------- C3
\* C3: when the log of a session is exactly what saving its N turns wrote, the
\* queries are pairwise distinct and no text contains a delimiter token, a
\* restart (load into an empty store) yields N turns with the same
\* (query, response) pairs in the same order.
C3_RoundTrip ==
    [][\A s \in DOMAIN conversations :
          ( /\ last_call'.op = "__init__"
            /\ s \in DOMAIN files
            /\ files[s] = Concat(PendingWrites(History(s), 1))
            /\ DistinctQueries(History(s))
            /\ \A i \in 1..Len(History(s)) :
                  DelimiterFree(History(s)[i].query)
                  /\ DelimiterFree(History(s)[i].response) )
          => /\ s \in DOMAIN conversations'
             /\ Pairs(conversations'[s].history) = Pairs(History(s))]_vars

\* ---------------------------------------------------------------- C4
\* C4: load_conversation_histories keeps every session that is in memory: its
\* history before the load is a prefix of its history after it and its
\* last_context is unchanged.
C4_LoadNonDestructive ==
    [][last_call'.op = "load_conversation_histories"
          => \A s \in DOMAIN conversations :
                /\ s \in DOMAIN conversations'
                /\ IsPrefix(History(s), conversations'[s].history)
                /\ conversations'[s].last_context = conversations[s].last_context]_vars

\* A load that added an imported turn behind a turn the process had appended,
\* in a session that has a last_context.
C4_Witness ==
    /\ last_call.op = "load_conversation_histories"
    /\ \E s \in DOMAIN conversations :
          /\ conversations[s].last_context # None
          /\ \E i, j \in 1..Len(History(s)) :
                /\ i < j
                /\ History(s)[i].timestamp = "t"
                /\ History(s)[j].timestamp = "Imported"

\* ---------------------------------------------------------------- C5
\* C5: a load adds no turn whose query is already in the session's history (a
\* query that was absent is added at most once), and after a restart no
\* session holds two turns with the same query.
C5_LoadDeduplicates ==
    /\ [](last_call.op = "__init__"
            => \A s \in DOMAIN conversations : DistinctQueries(History(s)))
    /\ [][last_call'.op \in {"load_conversation_histories", "__init__"}
            => \A s \in DOMAIN conversations' :
                 LET before == IF last_call'.op = "__init__"
                                  \/ s \notin DOMAIN conversations
                               THEN <<>> ELSE History(s)
                     after == conversations'[s].history
                 IN \A q \in HistoryQueries(after) :
                       QueryCount(after, q) =
                          IF QueryCount(before, q) >= 1
                          THEN QueryCount(before, q) ELSE 1]_vars

\* After a restart: a log with two blocks of one query gave a single turn.
C5_Witness ==
    /\ last_call.op = "__init__"
    /\ \E s \in DOMAIN conversations :
          /\ Len(History(s)) = 1
          /\ BlocksWith(files[s], Pair(History(s)[1])) = 2

\* ---------------------------------------------------------------- C6
\* C6: delete_conversation_history removes the session from the map; it returns
\* True exactly when no log file of the session is left (so also for a session
\* that never had one) and False only when os.remove of an existing file raised
\* in that call; a load never brings back a session that is neither in the map
\* nor on disk.
C6_Delete ==
    /\ [](last_call.op = "delete_conversation_history"
            => LET s == last_call.session_id
               IN /\ s \notin DOMAIN conversations
                  /\ last_call.result = "True" => s \notin DOMAIN files
                  /\ last_call.result = "False" => s \in DOMAIN files)
    /\ [][/\ last_call'.op = "delete_conversation_history"
             => LET s == last_call'.session_id
                IN /\ s \notin DOMAIN files => last_call'.result = "True"
                   /\ last_call'.result = "False"
                         => s \in DOMAIN files /\ ~faulted /\ faulted'
                   /\ \A o \in DOMAIN conversations \ {s} :
                         o \in DOMAIN conversations'
                         /\ conversations'[o] = conversations[o]
                   /\ \A o \in DOMAIN files \ {s} :
                         o \in DOMAIN files' /\ files'[o] = files[o]
          /\ last_call'.op \in {"load_conversation_histories", "__init__"}
             => \A s \in SessionIds :
                   (s \notin DOMAIN files /\ s \notin DOMAIN conversations)
                      => s \notin DOMAIN conversations']_vars

\* A delete returned True for a session that had turns in memory and a log.
C6_Witness ==
    /\ last_call.op = "delete_conversation_history"
    /\ last_call.result = "True"
    /\ appended > 0
    /\ dirExists
    /\ ~faulted
    /\ DOMAIN files = {}
    /\ DOMAIN conversations = {}

\* ---------------------------------------------------------------- C7
\* C7 (as stated): create_conversation called without a session id or with one
\* that is not in the map returns an identifier generated by that call, which
\* was not in the map, and gives it an empty history and no last context.
C7_UnknownIdRegenerated ==
    [][(last_call'.op = "create_conversation"
          /\ last_call'.was \in {"absent", "unknown"})
          => LET r == last_call'.result
             IN /\ r \notin DOMAIN conversations
                /\ r \in issued' \ issued
                /\ r \in DOMAIN conversations'
                /\ conversations'[r] = NewConversation]_vars

\* C7 (amended): without a session id create_conversation returns an identifier
\* generated by that call, which was not in the map; with a session id that is
\* not in the map it returns that same id and generates none; in both cases the
\* id gets an empty history and no last context; with a known id it returns
\* the id and changes nothing.  No other session is touched.
C7_CreateConversation ==
    [][last_call'.op = "create_conversation"
          => LET a == last_call'.session_id
                 r == last_call'.result
             IN /\ a = None
                   => /\ r \notin DOMAIN conversations
                      /\ r \in issued' \ issued
                      /\ r \in DOMAIN conversations'
                      /\ conversations'[r] = NewConversation
                /\ (a # None /\ a \notin DOMAIN conversations)
                   => /\ r = a
                      /\ issued' = issued
                      /\ r \in DOMAIN conversations'
                      /\ conversations'[r] = NewConversation
                /\ a \in DOMAIN conversations
                   => r = a /\ conversations' = conversations /\ issued' = issued
                /\ \A s \in DOMAIN conversations :
                      s \in DOMAIN conversations'
                      /\ conversations'[s] = conversations[s]]_vars

\* A caller-supplied id that was not in the map has been adopted, next to a
\* session whose id was generated.
C7_Witness ==
    /\ last_call.op = "create_conversation"
    /\ last_call.was = "unknown"
    /\ last_call.result = last_call.session_id
    /\ last_call.result \notin issued
    /\ conversations[last_call.result] = NewConversation
    /\ \E u \in issued : u \in DOMAIN conversations

\* ---------------------------------------------------------------- C8
\* C8: save_conversation_history never raises (every I/O error gives False), and
\* no generate_content task ends by an exception of the save.
C8_PersistNeverRaises ==
    /\ last_call.save # "raised"
    /\ \A r \in Requests : requests[r].pc # "raised_save"

\* ---------------------------------------------------------------- C9
\* the tasks whose _update_conversation_history appended their turn to s
Appended(s) ==
    {r \in Requests : /\ requests[r].session_id = s
                      /\ requests[r].pc \in {"returned", "raised_save"}}

\* C9: a session's history holds one turn per generate_content task that got
\* past process_llm_response, and the log holds no more blocks than that (the
\* text of exactly those turns when no I/O fault struck): a task that is still
\* running, was cancelled in an add_step or whose rag_chain.invoke raised has
\* no turn in the history or in the log.
C9_AtomicTurn ==
    /\ \A s \in DOMAIN conversations :
          /\ Len(History(s)) = Cardinality(Appended(s))
          /\ \A p \in {Pair(History(s)[i]) : i \in 1..Len(History(s))} :
                TurnsWith(History(s), p) =
                   Cardinality({r \in Appended(s) :
                                   <<requests[r].query, requests[r].answer>> = p})
    /\ \A s \in DOMAIN files :
          /\ s \in DOMAIN conversations
          /\ Count(files[s], "FIN") <= Cardinality(Appended(s))
          /\ ~faulted => files[s] = Concat(PendingWrites(History(s), 1))

\* One task was cancelled in an add_step after it had started, and
\* another task of the same session returned its answer.
C9_Witness ==
    \E r1, r2 \in Requests :
        /\ requests[r1].pc = "abandoned"
        /\ requests[r2].pc = "returned"
        /\ requests[r1].session_id = requests[r2].session_id
        /\ requests[r1].query # requests[r2].query
        /\ requests[r2].session_id \in DOMAIN conversations
        /\ requests[r2].session_id \in DOMAIN files
        /\ Len(History(requests[r2].session_id)) = 1
        /\ Count(files[requests[r2].session_id], "FIN") = 1

\* ---------------------------------------------------------------- C10
\* both tasks ran generate_content for the same session to its return, and no
\* I/O fault struck
BothReturned ==
    /\ \A r \in Requests : requests[r].pc = "returned"
    /\ \A r1, r2 \in Requests : requests[r1].session_id = requests[r2].session_id
    /\ ~faulted

\* the turn of task r is missing from the history or from the log
TurnLost(r) ==
    LET s == requests[r].session_id
        p == <<requests[r].query, requests[r].answer>>
        same == Cardinality({o \in Requests :
                                <<requests[o].query, requests[o].answer>> = p})
    IN \/ s \notin DOMAIN conversations
       \/ TurnsWith(History(s), p) < same
       \/ s \notin DOMAIN files
       \/ BlocksWith(files[s], p) < same

MaxItems == 2       \* items in one list given to a formatting function

storeVars == <<conversations, files, dirExists, issued, last_call, faulted,
               appended, requests>>

Digit == <<"0", "1", "2", "3", "4", "5", "6", "7", "8", "9">>
Digits == {Digit[i] : i \in 1..Len(Digit)}
DigitValue(c) == (CHOOSE i \in 1..Len(Digit) : Digit[i] = c) - 1

\* the number a run of digits stands for
RECURSIVE NatOf(_)
NatOf(ds) ==
    IF ds = <<>> THEN 0
    ELSE NatOf(SubSeq(ds, 1, Len(ds) - 1)) * 10 + DigitValue(ds[Len(ds)])

\* the digits of a natural number
RECURSIVE DigitsOf(_)
DigitsOf(n) ==
    IF n < 10 THEN <<Digit[n + 1]>> ELSE Append(DigitsOf(n \div 10), Digit[(n % 10) + 1])

\* the item has no "id" key: new_req.get("id", None)
NoId == <<"None">>

\* int(raw_id) succeeds: an optional sign and then digits only
IsNumeral(s) ==
    LET body == IF s # <<>> /\ Head(s) \in {"-", "+"} THEN Tail(s) ELSE s
    IN body # <<>> /\ \A i \in 1..Len(body) : body[i] \in Digits

IntOf(s) ==
    IF Head(s) = "-" THEN 0 - NatOf(Tail(s))
    ELSE IF Head(s) = "+" THEN NatOf(Tail(s)) ELSE NatOf(s)

\* re.search(r'\d+', ...): the first maximal run of digits, <<>> when none
RECURSIVE DigitRunFrom(_)
DigitRunFrom(s) ==
    IF s = <<>> \/ Head(s) \notin Digits THEN <<>>
    ELSE <<Head(s)>> \o DigitRunFrom(Tail(s))

RECURSIVE FirstDigitRun(_)
FirstDigitRun(s) ==
    IF s = <<>> THEN <<>>
    ELSE IF Head(s) \in Digits THEN DigitRunFrom(s) ELSE FirstDigitRun(Tail(s))

\* the number _format_requirements takes from the id the model suggested
RequirementNumber(raw_id) ==
    IF IsNumeral(raw_id) THEN IntOf(raw_id)
    ELSE IF FirstDigitRun(raw_id) = <<>> THEN 0 ELSE NatOf(FirstDigitRun(raw_id))

\* f"{num:03d}": sign, then zeros up to a total width of three, then digits
Format03d(num) ==
    LET sign == IF num < 0 THEN <<"-">> ELSE <<>>
        ds == DigitsOf(IF num < 0 THEN 0 - num ELSE num)
        pad == 3 - Len(sign) - Len(ds)
    IN sign \o [i \in 1..(IF pad > 0 THEN pad ELSE 0) |-> "0"] \o ds

\* str.lower() on the tokens of a category
LowerToken(t) ==
    CASE t = "Funcional" -> "funcional"
      [] t = "No " -> "no "
      [] t = "NF" -> "nf"
      [] t = "Error" -> "error"
      [] t = "Información insuficiente" -> "información insuficiente"
      [] t = "INFORMACION_INSUFICIENTE" -> "informacion_insuficiente"
      [] OTHER -> t

Lower(text) == [i \in 1..Len(text) |-> LowerToken(text[i])]

\* "no funcional" in category or "nf" in category
IsNonFunctional(category) ==
    \/ Find(Lower(category), <<"no ", "funcional">>) # 0
    \/ Find(Lower(category), <<"nf">>) # 0

\* The numbering the specification describes for requirements: each item gets
\* its 1-based position among the items of its category.
FormatRequirementsByPosition(requirements) ==
    [i \in 1..Len(requirements) |->
        LET nf == IsNonFunctional(requirements[i].category)
            pos == Cardinality({j \in 1..i :
                       IsNonFunctional(requirements[j].category) = nf})
        IN [requirements[i] EXCEPT !.id =
               (IF nf THEN <<"REQ-", "NF-">> ELSE <<"REQ-">>) \o Format03d(pos)]]

\* RequirementResponse._format_requirements
FormatRequirements(requirements) ==
    [i \in 1..Len(requirements) |->
        LET num == RequirementNumber(requirements[i].id)
        IN [requirements[i] EXCEPT !.id =
               (IF IsNonFunctional(requirements[i].category)
                THEN <<"REQ-", "NF-">> ELSE <<"REQ-">>) \o Format03d(num)]]

\* Formats.fix_content_ids as it would be if it kept the identifiers it finds.
FixContentIdsKeep(content, type) == content

\* Formats.fix_content_ids
FixContentIds(content, type) ==
    [i \in 1..Len(content) |->
        [content[i] EXCEPT !.id =
            (IF type = "epic" THEN <<"EPIC-">> ELSE <<"US-">>) \o Format03d(i)]]

\* identifiers a model may suggest, categories, titles
RawIds == {NoId, <<"1">>, <<"2">>, <<"-", "5">>, <<"REQ-", "0", "0", "7">>,
           <<"REQ-", "NF-", "0", "0", "1">>}
Categories == {<<"Funcional">>, <<"No ", "Funcional">>, <<"NF">>}
Titles == {"t"}
Items == [id : RawIds, category : Categories, title : Titles]

SeqsUpTo(S, n) == UNION {[1..k -> S] : k \in 0..n}

ItemKinds == {"requirements", "epic", "US"}

\* the identifier reassignment of an item kind
Reassign(kind, items) ==
    IF kind = "requirements" THEN FormatRequirements(items)
    ELSE FixContentIds(items, kind)

InitIds ==
    /\ StoreInit
    /\ route = NoRoute
    /\ calc \in [fn : ItemKinds, items : SeqsUpTo(Items, MaxItems),
                 once : {<<>>}, twice : {<<>>}, runs : {0}]

\* RequirementResponse.format_response on a list content
FormatResponse ==
    /\ calc.fn = "requirements"
    /\ calc.runs = 0
    /\ calc' = [calc EXCEPT !.once = FormatRequirements(calc.items), !.runs = 1]
    /\ UNCHANGED <<storeVars, route>>

\* fix_content_ids on the items of a route
FixContentIdsCall ==
    /\ calc.fn \in {"epic", "US"}
    /\ calc.runs = 0
    /\ calc' = [calc EXCEPT !.once = FixContentIds(calc.items, calc.fn), !.runs = 1]
    /\ UNCHANGED <<storeVars, route>>

\* the same reassignment applied to its own result
ReassignAgain ==
    /\ calc.fn \in ItemKinds
    /\ calc.runs = 1
    /\ calc' = [calc EXCEPT !.twice = Reassign(calc.fn, calc.once), !.runs = 2]
    /\ UNCHANGED <<storeVars, route>>

NextIds ==
    \/ FormatResponse
    \/ FixContentIdsCall
    \/ ReassignAgain

SpecIds == InitIds /\ [][NextIds]_vars

\* ---------------------------------------------------------------- C14
\* C14: reassigning the identifiers of an already reassigned list (of
\* requirements, epics or user stories) gives the same list.
C14_ReassignIdempotent ==
    (calc.fn \in ItemKinds /\ calc.runs = 2) => calc.twice = calc.once

\* ---------------------------------------------------------------- C15
\* C15: after format_response every requirement's identifier is REQ- or
\* REQ-NF- followed by the item's 1-based position among the items of its
\* category, whatever identifier the model suggested.
C15_OrdinalIsPosition ==
    (calc.fn = "requirements" /\ calc.runs >= 1)
       => calc.once = FormatRequirementsByPosition(calc.items)

\* ========================================================== merge_responses
\* A text given to merge_responses is modelled by what json.loads makes of it:
\* "invalid" (JSONDecodeError), "scalar" (valid JSON that is no object: a list,
\* a number, null) or "object"; haslist says that the object's "content" is a
\* list, whose elements are then in content.  An element is a dict (isdict)
\* with an id (NoId when it has none), a category and other fields, or
\* something else.
MaxMergeItems == 2  \* elements of the content list of one merge input

StartsWith(text, prefix) ==
    Len(text) >= Len(prefix) /\ SubSeq(text, 1, Len(prefix)) = prefix

Element(isdict, id, category, title) ==
    [isdict |-> isdict, id |-> id, category |-> category, title |-> title]

MergeElements ==
    { Element(FALSE, NoId, <<>>, "t"),
      Element(TRUE, NoId, <<"Funcional">>, "t"),
      Element(TRUE, <<"1">>, <<"Funcional">>, "t"),
      Element(TRUE, <<"1">>, <<"Funcional">>, "u"),
      Element(TRUE, <<"2">>, <<"No ", "Funcional">>, "t"),
      Element(TRUE, <<"REQ-", "NF-", "0", "0", "1">>, <<"Funcional">>, "t") }

Payload(kind, haslist, content) ==
    [kind |-> kind, haslist |-> haslist, content |-> content]

Payloads ==
    { Payload("invalid", FALSE, <<>>), Payload("scalar", FALSE, <<>>),
      Payload("object", FALSE, <<>>) }
    \cup { Payload("object", TRUE, l) : l \in SeqsUpTo(MergeElements, MaxMergeItems) }

\* f_dict.get("content", []) if isinstance(f_dict.get("content"), list) else []
ContentItems(payload) ==
    IF payload.kind = "object" /\ payload.haslist THEN payload.content ELSE <<>>

\* The loop of merge_responses as it would be without the seen_ids test.
RECURSIVE KeepAll(_, _)
KeepAll(items, seen) ==
    IF items = <<>> THEN <<>>
    ELSE IF ~Head(items).isdict \/ Head(items).id \in {NoId, <<>>}
         THEN KeepAll(Tail(items), seen)
         ELSE <<Head(items)>> \o KeepAll(Tail(items), seen)

\* The loop of merge_responses: the dicts with an id not seen before, in order.
RECURSIVE KeepFirst(_, _)
KeepFirst(items, seen) ==
    IF items = <<>> THEN <<>>
    ELSE LET item == Head(items)
         IN IF ~item.isdict \/ item.id \in {NoId, <<>>} \/ item.id \in seen
            THEN KeepFirst(Tail(items), seen)
            ELSE <<item>> \o KeepFirst(Tail(items), seen \cup {item.id})

IsNfId(id) == StartsWith(id, <<"REQ-", "NF-">>)

Stamp(items, category) ==
    [i \in 1..Len(items) |-> [items[i] EXCEPT !.category = category]]

\* Formats.merge_responses; raised when it ends by an exception.
MergeResponses(f_response, nf_response) ==
    IF f_response.kind = "scalar" \/ nf_response.kind = "scalar"
    THEN [raised |-> TRUE, status |-> "none", funcionales |-> <<>>,
          no_funcionales |-> <<>>]
    ELSE LET kept == KeepFirst(ContentItems(f_response) \o ContentItems(nf_response), {})
             IsNf(item) == IsNfId(item.id)
             IsF(item) == ~IsNfId(item.id)
         IN [raised |-> FALSE,
             status |-> "REQUERIMIENTOS_GENERADOS",
             funcionales |-> Stamp(SelectSeq(kept, IsF), <<"Funcional">>),
             no_funcionales |-> Stamp(SelectSeq(kept, IsNf), <<"No ", "Funcional">>)]

\* format_response on the content list of a generation's answer
Normalized(payload) ==
    [payload EXCEPT !.content = FormatRequirements(payload.content)]

AllDicts(payload) ==
    /\ payload.kind = "object"
    /\ payload.haslist
    /\ \A i \in 1..Len(payload.content) : payload.content[i].isdict

NoMerge == [raised |-> FALSE, status |-> "none", funcionales |-> <<>>,
            no_funcionales |-> <<>>]

InitMerge ==
    /\ StoreInit
    /\ route = NoRoute
    /\ calc \in [fn : {"merge_responses"}, f : Payloads, nf : Payloads,
                 normalized : {FALSE}, merged : {FALSE}, out : {NoMerge}]

\* the texts merge_responses is given: the two answers as they are, or after
\* format_response
MergeInput(payload) == IF calc.normalized THEN Normalized(payload) ELSE payload

\* Both answers go through format_response before the merge.
NormalizeInputs ==
    /\ calc.fn = "merge_responses"
    /\ ~calc.normalized /\ ~calc.merged
    /\ AllDicts(calc.f) /\ AllDicts(calc.nf)
    /\ calc' = [calc EXCEPT !.normalized = TRUE]
    /\ UNCHANGED <<storeVars, route>>

MergeCall ==
    /\ calc.fn = "merge_responses"
    /\ ~calc.merged
    /\ calc' = [calc EXCEPT !.merged = TRUE,
                            !.out = MergeResponses(MergeInput(calc.f), MergeInput(calc.nf))]
    /\ UNCHANGED <<storeVars, route>>

NextMerge ==
    \/ NormalizeInputs
    \/ MergeCall

SpecMerge == InitMerge /\ [][NextMerge]_vars

Merged == calc.fn = "merge_responses" /\ calc.merged

Ids(items) == [i \in 1..Len(items) |-> items[i].id]

\* an item without the category merge_responses stamps on it
Bare(item) == [item EXCEPT !.category = <<>>]
BareSet(items) == {Bare(items[i]) : i \in 1..Len(items)}

\* the elements given to the merge, A's and then B's
MergeGiven == ContentItems(MergeInput(calc.f)) \o ContentItems(MergeInput(calc.nf))

\* position of the first element of the list with this id
FirstWith(items, id) == CHOOSE i \in 1..Len(items) :
    items[i].id = id /\ \A j \in 1..(i - 1) : items[j].id # id

\* the elements that are the first of the list with their id
FirstById(items) ==
    {Bare(items[i]) : i \in {k \in 1..Len(items) : FirstWith(items, items[k].id) = k}}

HasId(item) == item.isdict /\ item.id \notin {NoId, <<>>}

\* ---------------------------------------------------------------- C16
\* C16: an answer with the single item (id "1", Funcional) and an answer with
\* the single item (id "2", No Funcional), each passed through format_response
\* and then merged, give one functional item REQ-001 and one non-functional
\* item REQ-NF-001.
C16_ScenarioIds ==
    ( /\ Merged /\ calc.normalized
      /\ calc.f = Payload("object", TRUE,
                     <<Element(TRUE, <<"1">>, <<"Funcional">>, "t")>>)
      /\ calc.nf = Payload("object", TRUE,
                     <<Element(TRUE, <<"2">>, <<"No ", "Funcional">>, "t")>>) )
    => /\ ~calc.out.raised
       /\ Ids(calc.out.funcionales) = << <<"REQ-", "0", "0", "1">> >>
       /\ Ids(calc.out.no_funcionales) = << <<"REQ-", "NF-", "0", "0", "1">> >>

C18_MergeNeverFails ==
    Merged
       => /\ ~calc.out.raised
          /\ \A p \in {<<calc.f, calc.nf>>, <<calc.nf, calc.f>>} :
                (p[1].kind # "object" \/ ~p[1].haslist)
                   => calc.out = MergeResponses(Payload("invalid", FALSE, <<>>),
                                                MergeInput(p[2]))

\* ------------------------------------------------- process_llm_response
\* A raw answer is prose, a sequence of phrases, followed by at most one JSON
\* text.  No phrase holds a brace, a list marker or one of . ; and newline.
MaxWords == 2

Phrases == {"hola", "Información insuficiente", "necesito más información",
            "falta", "detalles", "para generar", "Error", "procesar"}

\* the search words of the module that occur in a lower-case phrase
KeywordsOf(t) ==
    CASE t = "información insuficiente" -> {"información insuficiente", "información"}
      [] t = "necesito más información" ->
             {"necesito más información", "necesito", "información"}
      [] t = "falta" -> {"falta"}
      [] t = "detalles" -> {"detalles"}
      [] t = "para generar" -> {"para generar"}
      [] t = "error" -> {"error"}
      [] t = "procesar" -> {"procesar"}
      [] t = "requerimiento" -> {"requerimiento"}
      [] OTHER -> {}

\* keyword in text
In(keyword, text) == \E i \in 1..Len(text) : keyword \in KeywordsOf(text[i])

StrValue(text) == [t |-> "str", str |-> text, list |-> <<>>]
ListValue(items) == [t |-> "list", str |-> <<>>, list |-> items]
AbsentValue == [t |-> "absent", str |-> <<>>, list |-> <<>>]
\* a number, an object, null
OtherValue == [t |-> "other", str |-> <<>>, list |-> <<>>]

\* missing_info of a response: None, or a list of texts
NoMissingInfo == [isnone |-> TRUE, items |-> <<>>]
MissingInfo(items) == [isnone |-> FALSE, items |-> items]

\* the "missing_info" member of a JSON text; strs: every element is a string
JsonMissing(t, items, strs) == [t |-> t, items |-> items, strs |-> strs]

JsonMissingValues ==
    { JsonMissing("absent", <<>>, TRUE),
      JsonMissing("list", <<>>, TRUE),
      JsonMissing("list", << <<"hola">> >>, TRUE),
      JsonMissing("list", << <<"hola">> >>, FALSE),
      JsonMissing("str", << <<"hola">> >>, TRUE) }

JsonStatusValues ==
    { AbsentValue, StrValue(<<"missing_info">>),
      StrValue(<<"INFORMACION_INSUFICIENTE">>), OtherValue }

JsonContentValues ==
    { AbsentValue, OtherValue,
      StrValue(<<"hola">>), StrValue(<<"Información insuficiente">>),
      StrValue(<<"Error">>), StrValue(<<"requerimiento">>),
      ListValue(<<[id |-> <<"2">>, category |-> <<"Funcional">>, title |-> "t"]>>) }

JsonText(kind, status, content, missing_info) ==
    [kind |-> kind, status |-> status, content |-> content, missing_info |-> missing_info]

\* no JSON text; a braced text json.loads rejects; a fenced JSON text that is
\* no object; a JSON object
JsonTexts ==
    {JsonText(k, AbsentValue, AbsentValue, JsonMissing("absent", <<>>, TRUE)) :
        k \in {"none", "invalid", "nonobject"}}
    \cup {JsonText("object", st, c, mi) :
            st \in JsonStatusValues, c \in JsonContentValues, mi \in JsonMissingValues}

\* the words of the JSON text (those of a list content hold no search word)
JsonWords(json) ==
    CASE json.kind = "none" -> <<>>
      [] json.kind = "invalid" -> <<"{oops}">>
      [] json.kind = "nonobject" -> <<"[]">>
      [] OTHER -> json.status.str \o json.content.str \o Concat(json.missing_info.items)

\* response.get('answer')
RawAnswer(prose, json) == prose \o JsonWords(json)

\* _extract_missing_info: the text after the first información/detalles that
\* follows the first necesito/falta, up to "para generar" or the end; with no
\* list marker and no separator in it, the stripped text is the one item
ExtractMissingInfo(lower_response) ==
    LET n == Len(lower_response)
        starts == {i \in 1..n : KeywordsOf(lower_response[i]) \cap {"necesito", "falta"} # {}}
        p == CHOOSE i \in starts : \A j \in starts : i <= j
        infos == {i \in 1..n :
                    /\ KeywordsOf(lower_response[i]) \cap {"información", "detalles"} # {}
                    /\ \/ i > p
                       \/ i = p /\ lower_response[i] = "necesito más información"}
        q == CHOOSE i \in infos : \A j \in infos : i <= j
        rest == IF lower_response[q] = "información insuficiente"
                THEN <<"insuficiente">> ELSE <<>>
        stops == {i \in (q + 1)..n : lower_response[i] = "para generar"}
        last == IF stops = {} THEN n
                ELSE (CHOOSE i \in stops : \A j \in stops : i <= j) - 1
        raw_missing == rest \o SubSeq(lower_response, q + 1, last)
    IN IF starts = {} THEN NoMissingInfo
       ELSE IF infos = {} THEN NoMissingInfo
       ELSE IF raw_missing = <<>> THEN NoMissingInfo
       ELSE MissingInfo(<<raw_missing>>)

\* _detect_response_type: output_type and missing_info
DetectResponseType(raw_response) ==
    LET lower_response == Lower(raw_response)
    IN IF \/ In("información insuficiente", lower_response)
          \/ In("necesito más información", lower_response)
       THEN [output_type |-> "missing_info",
             missing_info |-> ExtractMissingInfo(lower_response)]
       ELSE IF /\ In("error", lower_response)
               /\ In("procesar", lower_response) \/ In("procesamiento", lower_response)
       THEN [output_type |-> "error", missing_info |-> NoMissingInfo]
       ELSE [output_type |-> "requirements", missing_info |-> NoMissingInfo]

\* _determine_response_status for an object without "status" and a str content
StatusOfContent(content) ==
    LET content_lower == Lower(content)
    IN IF \/ In("información insuficiente", content_lower)
          \/ In("necesito más información", content_lower)
       THEN "INFORMACION_INSUFICIENTE"
       ELSE IF In("error", content_lower) THEN "ERROR_PROCESAMIENTO"
       ELSE IF In("requerimiento", content_lower) \/ In("requisito", content_lower)
       THEN "REQUERIMIENTOS_GENERADOS"
       ELSE "RESPUESTA_GENERAL"

Raised == [raised |-> TRUE, status |-> "none", content |-> AbsentValue,
           missing_info |-> NoMissingInfo]

\* standardize_output; missing_info is the argument as a JSON value
StandardizeOutput(raw_response, output_type, missing_info) ==
    LET status == CASE output_type = "requirements" -> "REQUERIMIENTOS_GENERADOS"
                    [] output_type = "missing_info" -> "INFORMACION_INSUFICIENTE"
                    [] output_type = "error" -> "ERROR_PROCESAMIENTO"
                    [] OTHER -> "RESPUESTA_GENERAL"
        kept == missing_info.t = "list" /\ missing_info.items # <<>>
    IN IF raw_response.t \notin {"str", "list"} THEN Raised
       ELSE IF kept /\ ~missing_info.strs THEN Raised
       ELSE [raised |-> FALSE,
             status |-> status,
             content |-> IF raw_response.t = "list"
                         THEN ListValue(FormatRequirements(raw_response.list))
                         ELSE raw_response,
             missing_info |-> IF kept THEN MissingInfo(missing_info.items)
                              ELSE NoMissingInfo]

\* _extract_json_from_response and _process_json_response
ProcessJsonResponse(json, raw_answer) ==
    IF json.kind # "object" THEN Raised
    ELSE LET content == IF json.content.t = "absent" THEN StrValue(raw_answer)
                        ELSE json.content
         IN IF json.status.t = "other" THEN Raised
            ELSE IF json.status.t = "absent" /\ content.t # "str" THEN Raised
            ELSE LET status == IF json.status.t = "str" THEN json.status.str
                               ELSE <<StatusOfContent(content.str)>>
                 IN StandardizeOutput(content, Lower(status)[1], json.missing_info)

\* the except branch of process_llm_response
Fallback(raw_answer) ==
    LET d == DetectResponseType(raw_answer)
    IN StandardizeOutput(StrValue(raw_answer), d.output_type,
          IF d.missing_info.isnone THEN JsonMissing("absent", <<>>, TRUE)
          ELSE JsonMissing("list", d.missing_info.items, TRUE))

ProcessLlmResponseOf(prose, json) ==
    LET raw_answer == RawAnswer(prose, json)
        r == ProcessJsonResponse(json, raw_answer)
    IN IF r.raised
       THEN [path |-> "fallback", response |-> Fallback(raw_answer)]
       ELSE [path |-> "json", response |-> r]

NoResponse == [path |-> "none", response |-> Raised]

InitNorm ==
    /\ StoreInit
    /\ route = NoRoute
    /\ calc \in [fn : {"process_llm_response"}, prose : SeqsUpTo(Phrases, MaxWords),
                 json : JsonTexts, done : {FALSE}, out : {NoResponse}]

ProcessLlmResponse ==
    /\ calc.fn = "process_llm_response"
    /\ ~calc.done
    /\ calc' = [calc EXCEPT !.done = TRUE,
                            !.out = ProcessLlmResponseOf(calc.prose, calc.json)]
    /\ UNCHANGED <<storeVars, route>>

NextNorm == ProcessLlmResponse

SpecNorm == InitNorm /\ [][NextNorm]_vars

Processed == calc.fn = "process_llm_response" /\ calc.done

\* ---------------------------------------------------------------- C11
\* C11: every response process_llm_response returns with status
\* INFORMACION_INSUFICIENTE, on the JSON path and on the fallback path, has a
\* missing_info that is a non-empty list.
C11_MissingInfoNonEmpty ==
    (Processed /\ ~calc.out.response.raised
       /\ calc.out.response.status = "INFORMACION_INSUFICIENTE")
       => /\ ~calc.out.response.missing_info.isnone
          /\ calc.out.response.missing_info.items # <<>>

\* ---------------------------------------------------------------- C19
\* C19: when the JSON of a raw answer cannot be extracted or parsed,
\* process_llm_response does not raise and the response it returns has status
\* RESPUESTA_GENERAL or INFORMACION_INSUFICIENTE.
C19_FallbackStatus ==
    (Processed /\ calc.json.kind \in {"none", "invalid", "nonobject"})
       => /\ ~calc.out.response.raised
          /\ calc.out.response.status \in {"RESPUESTA_GENERAL", "INFORMACION_INSUFICIENTE"}

\* ---------------------------------- /generate-epics, /generate-user-stories
ChunkSize == 5      \* chunk_size of split_content
MaxInput == 6       \* requirements or epics in one request body

CanonicalStatuses == {"REQUERIMIENTOS_GENERADOS", "INFORMACION_INSUFICIENTE",
                      "ERROR_PROCESAMIENTO", "RESPUESTA_GENERAL"}

\* Formats.split_content
SplitContent(content, chunk_size) ==
    [j \in 1..((Len(content) + chunk_size - 1) \div chunk_size) |->
        SubSeq(content, (j - 1) * chunk_size + 1,
               IF j * chunk_size < Len(content) THEN j * chunk_size ELSE Len(content))]

\* format_requirements_for_prompt / format_epic_group_input: one line (two for
\* an epic) per element, each ended by a newline
PromptInput(kind, chunk) ==
    Concat([i \in 1..Len(chunk) |->
              IF kind = "epicas" THEN <<"-", chunk[i], "NL">>
              ELSE <<"EPIC:", chunk[i], "NL", "NL">>])

\* json.dumps of a content list
DumpItems(items) ==
    <<"[">> \o Concat([i \in 1..Len(items) |->
                          <<"{">> \o items[i].id \o <<":", items[i].title, "}">>])
            \o <<"]">>

\* json.dumps of a response: its status, then its content
ResponseText(status, content) ==
    <<status>> \o (IF content.t = "list" THEN DumpItems(content.list) ELSE content.str)

RECURSIVE LoadItems(_)
LoadItems(text) ==
    IF text = <<>> THEN <<>>
    ELSE LET colon == Find(text, <<":">>)
             close == Find(text, <<"}">>)
         IN <<[id |-> SubSeq(text, 2, colon - 1), category |-> <<>>,
               title |-> text[colon + 1]]>>
            \o LoadItems(SubSeq(text, close + 1, Len(text)))

\* json.loads(text).get("content")
ParsedContent(text) ==
    IF Len(text) >= 2 /\ text[2] = "["
    THEN ListValue(LoadItems(SubSeq(text, 3, Len(text) - 1)))
    ELSE StrValue(Tail(text))

\* items a model suggests in one batch: it numbers every batch from 1
RouteItems == {[id |-> <<"EPIC-", "0", "0", "1">>, category |-> <<>>, title |-> "t"],
               [id |-> <<"2">>, category |-> <<>>, title |-> "t"]}

\* what generate_content returns for a batch: process_llm_response of an
\* answer whose JSON holds a list of items, or of an answer without JSON
BatchAnswers ==
    LET jsons == {JsonText("object", StrValue(<<"INFORMACION_INSUFICIENTE">>),
                           ListValue(items), JsonMissing("absent", <<>>, TRUE)) :
                     items \in SeqsUpTo(RouteItems, MaxItems)}
                 \cup {JsonText("none", AbsentValue, AbsentValue,
                                JsonMissing("absent", <<>>, TRUE))}
    IN {LET r == ProcessLlmResponseOf(<<"hola">>, j).response
        IN ResponseText(r.status, r.content) : j \in jsons}

InitRoute ==
    /\ StoreInit
    /\ calc = NoCalc
    /\ route = NoRoute

\* The request body arrives: the input list is split into chunks.
RouteReceive(kind, n) ==
    /\ route.pc = "none"
    /\ LET input == [i \in 1..n |-> "a"]
           chunks == SplitContent(input, ChunkSize)
       IN route' = [pc |-> IF chunks = <<>> THEN "fix" ELSE "batch",
                    kind |-> kind,
                    session_id |-> "s1",
                    known |-> "s1" \in DOMAIN conversations,
                    query |-> IF kind = "epicas" THEN <<"[">> \o Concat(chunks) \o <<"]">>
                              ELSE <<"{">> \o input \o <<"}">>,
                    chunks |-> chunks,
                    batches |-> <<>>,
                    all_items |-> <<>>,
                    response |-> <<>>,
                    error |-> "none"]
    /\ UNCHANGED <<storeVars, calc>>

\* the loop body starts generate_content for the next chunk
RouteGenerate ==
    /\ route.pc = "batch"
    /\ GenStart(1, route.session_id, FALSE, PromptInput(route.kind, Head(route.chunks)))

\* generate_content goes on to its end
RouteAwait ==
    /\ route.pc = "batch"
    /\ \/ GenPreparePrompt(1)
       \/ GenSearchStep(1)
       \/ \E raises \in BOOLEAN : GenInvoke(1, raises)
       \/ GenSynthStep(1)
       \/ \E a \in BatchAnswers, c \in Contexts \cup {None} : GenFinish(1, a, c, "none", 0)

\* the loop body after generate_content returned: json.loads and extend
RouteCollect ==
    /\ route.pc = "batch"
    /\ requests[1].pc = "returned"
    /\ LET parsed == ParsedContent(requests[1].answer)
           items == IF parsed.t = "list" THEN parsed.list ELSE <<>>
       IN route' = [route EXCEPT !.pc = IF Tail(route.chunks) = <<>> THEN "fix" ELSE "batch",
                                 !.chunks = Tail(route.chunks),
                                 !.batches = Append(route.batches, items),
                                 !.all_items = route.all_items \o items]
    /\ requests' = [requests EXCEPT ![1] = IdleRequest]
    /\ UNCHANGED <<conversations, files, dirExists, issued, last_call, faulted,
                   appended, calc>>

\* generate_content raised: the route answers 500
RouteBatchRaised ==
    /\ route.pc = "batch"
    /\ requests[1].pc \in {"raised_generate", "raised_update", "raised_save"}
    /\ route' = [route EXCEPT !.pc = "raised", !.error = "generate_content"]
    /\ requests' = [requests EXCEPT ![1] = IdleRequest]
    /\ UNCHANGED <<conversations, files, dirExists, issued, last_call, faulted,
                   appended, calc>>

\* After the loop: fix_content_ids, the final response (the request carries no
\* lang, nothing is translated), load_conversation_histories, the append to
\* conversations[session_id]["history"] (KeyError when the session is not in
\* the map), auto_save_history.  The entry's raw_response is not modelled: the
\* store never reads it.
RouteFinish ==
    /\ route.pc = "fix"
    /\ LET s == route.session_id
           response == FixContentIds(route.all_items,
                                     IF route.kind = "epicas" THEN "epic" ELSE "US")
           status == IF route.kind = "epicas" THEN "EPICAS_GENERADOS"
                     ELSE "HISTORIAS_GENERADAS"
           final_response_text == ResponseText(status, ListValue(response))
           loaded == LoadAll(conversations, files, dirExists, {})
       IN IF s \notin DOMAIN loaded
          THEN /\ route' = [route EXCEPT !.pc = "raised", !.error = "KeyError",
                                         !.response = response]
               /\ conversations' = loaded
               /\ last_call' = Call(route.kind, s, "raised", "none", "none")
               /\ UNCHANGED <<files, dirExists, appended>>
          ELSE LET convs == WithTurn(loaded, s, route.query, final_response_text, None)
                   out == SaveOutcome(convs, files, dirExists, s, "none", 0)
               IN /\ route' = [route EXCEPT !.pc = "returned", !.response = response]
                  /\ conversations' = convs
                  /\ appended' = appended + 1
                  /\ files' = out.files
                  /\ dirExists' = out.dirExists
                  /\ last_call' = Call(route.kind, s, None, out.result, "none")
    /\ UNCHANGED <<issued, faulted, requests, calc>>

NextRoute ==
    \/ route.pc = "none" /\ \E arg \in ClientIds : CreateConversation(arg)
    \/ \E kind \in {"epicas", "historias_usuario"}, n \in 0..MaxInput : RouteReceive(kind, n)
    \/ RouteGenerate
    \/ RouteAwait
    \/ RouteCollect
    \/ RouteBatchRaised
    \/ RouteFinish

SpecRoute == InitRoute /\ [][NextRoute]_vars

C13_SequentialIds ==
    (route.pc \in {"returned", "raised"} /\ route.error # "generate_content")
       => LET all == Concat(route.batches)
              prefix == IF route.kind = "epicas" THEN "EPIC-" ELSE "US-"
          IN /\ route.all_items = all
             /\ Len(route.response) = Len(all)
             /\ \A i \in 1..Len(all) :
                   /\ [route.response[i] EXCEPT !.id = all[i].id] = all[i]
                   /\ Len(route.response[i].id) = 4
                   /\ route.response[i].id[1] = prefix
                   /\ \A d \in 2..4 : route.response[i].id[d] \in Digits
                   /\ NatOf(Tail(route.response[i].id)) = i
             /\ \A i, j \in 1..Len(all) :
                   route.response[i].id = route.response[j].id => i = j

\* A request of two batches that each gave items, with one identifier given in
\* both batches.
C13_Witness ==
    /\ route.pc = "returned"
    /\ Len(route.batches) = 2
    /\ Len(route.batches[1]) = MaxItems
    /\ route.batches[2] # <<>>
    /\ route.batches[1][1].id = route.batches[2][1].id
    /\ Len(route.response) > MaxItems

\* ---------------------------------------------------------------- C20
\* C20: a request for a session id that is not in the store never fails at the
\* append: the session is created on demand and the turn is appended, also
\* when the input list is empty and no batch runs.
C20_AppendNeverFails ==
    (route.pc \in {"returned", "raised"} /\ ~route.known
       /\ route.error # "generate_content")
       => /\ route.error = "none"
          /\ route.session_id \in DOMAIN conversations
          /\ History(route.session_id) # <<>>
          /\ History(route.session_id)[Len(History(route.session_id))].query = route.query

\* ---------------------------------------------------------------- C27
\* C27: on the JSON path the status process_llm_response returns is the
\* classified one: the explicit status of the payload when it is one of the
\* four canonical statuses, and the status the keyword scan gives when the
\* payload has no status.
C27_ClassifiedStatusReturned ==
    (Processed /\ calc.out.path = "json")
       => LET content == IF calc.json.content.t = "absent"
                         THEN RawAnswer(calc.prose, calc.json)
                         ELSE calc.json.content.str
              S == IF calc.json.status.t = "str" THEN calc.json.status.str[1]
                   ELSE StatusOfContent(content)
          IN S \in CanonicalStatuses => calc.out.response.status = S

\* ------------------------------------------------- the two classifiers
\* _determine_response_status on a payload without "status"
DetermineResponseStatus(content) ==
    IF content.t # "str" THEN [raised |-> TRUE, status |-> "none"]
    ELSE [raised |-> FALSE, status |-> StatusOfContent(content.str)]

NotClassified == [raised |-> FALSE, status |-> "none"]

InitClass ==
    /\ StoreInit
    /\ route = NoRoute
    /\ calc \in [fn : {"classify"},
                 content : {StrValue(text) :
                               text \in SeqsUpTo(Phrases \cup {"requerimiento"}, MaxWords)}
                           \cup {ListValue(items) : items \in SeqsUpTo(RouteItems, 1)},
                 json : {NotClassified}, json_done : {FALSE},
                 fallback : {NotClassified}, fallback_done : {FALSE}]

\* the JSON path classifies the payload {"content": content}
DetermineResponseStatusCall ==
    /\ calc.fn = "classify"
    /\ ~calc.json_done
    /\ calc' = [calc EXCEPT !.json_done = TRUE,
                            !.json = DetermineResponseStatus(calc.content)]
    /\ UNCHANGED <<storeVars, route>>

\* the fallback path classifies the raw text
DetectResponseTypeCall ==
    /\ calc.fn = "classify"
    /\ ~calc.fallback_done
    /\ calc.content.t = "str"
    /\ calc' = [calc EXCEPT !.fallback_done = TRUE,
                            !.fallback = [raised |-> FALSE,
                                          status |-> Fallback(calc.content.str).status]]
    /\ UNCHANGED <<storeVars, route>>

NextClass == DetermineResponseStatusCall \/ DetectResponseTypeCall

SpecClass == InitClass /\ [][NextClass]_vars

\* ---------------------------------------------------------------- C22
\* C22: a payload without status is classified by priority, whatever its
\* content is (a text or an item list): an insufficient-information phrase
\* gives INFORMACION_INSUFICIENTE, else "error" gives ERROR_PROCESAMIENTO, else
\* a requirement keyword gives REQUERIMIENTOS_GENERADOS, else
\* RESPUESTA_GENERAL.
C22_ClassificationPriority ==
    (calc.fn = "classify" /\ calc.json_done)
       => LET w == IF calc.content.t = "str" THEN Lower(calc.content.str)
                   ELSE [i \in 1..Len(calc.content.list) |-> calc.content.list[i].title]
              insufficient == \/ In("información insuficiente", w)
                              \/ In("necesito más información", w)
              error == In("error", w)
              requirement == In("requerimiento", w) \/ In("requisito", w)
          IN /\ ~calc.json.raised
             /\ insufficient => calc.json.status = "INFORMACION_INSUFICIENTE"
             /\ (~insufficient /\ error) => calc.json.status = "ERROR_PROCESAMIENTO"
             /\ (~insufficient /\ ~error /\ requirement)
                   => calc.json.status = "REQUERIMIENTOS_GENERADOS"
             /\ (~insufficient /\ ~error /\ ~requirement)
                   => calc.json.status = "RESPUESTA_GENERAL"

\* ---------------------------------------------------------------- C23
\* C23: the status the fallback classifier gives a raw text equals the status
\* the JSON-path classifier gives a payload whose content is that text.
C23_SameScan ==
    (calc.fn = "classify" /\ calc.json_done /\ calc.fallback_done)
       => calc.fallback.status = calc.json.status

\* ------------------------------------------- _extract_json_from_response
\* A raw answer as the two patterns see it: the opening fence
\* (three backticks and json, FENCE_JSON), three backticks (FENCE), the braces, white space and any other text.
MaxRaw == 4

ExtractTokens == {"FENCE_JSON", "FENCE", "{", "}", "NL", "x"}

Least(S) == CHOOSE i \in S : \A j \in S : i <= j
Greatest(S) == CHOOSE i \in S : \A j \in S : j <= i

\* where the opening fence occurs, and where three backticks occur after
\* position i (the opening fence begins with three backticks)
Openings(raw) == {i \in 1..Len(raw) : raw[i] = "FENCE_JSON"}
Closings(raw, i) == {j \in (i + 1)..Len(raw) : raw[j] \in {"FENCE", "FENCE_JSON"}}

\* where { occurs, and where } occurs after position i
OpenBraces(raw) == {i \in 1..Len(raw) : raw[i] = "{"}
CloseBraces(raw, i) == {j \in (i + 1)..Len(raw) : raw[j] = "}"}

NoJsonFound == [raised |-> TRUE, json_str |-> <<>>]
Extracted(json_str) == [raised |-> FALSE, json_str |-> json_str]

\* the second pattern, a greedy brace span: first { to last }
BraceSpan(raw) ==
    IF OpenBraces(raw) # {} /\ CloseBraces(raw, Least(OpenBraces(raw))) # {}
    THEN Extracted(SubSeq(raw, Least(OpenBraces(raw)),
                          Greatest(CloseBraces(raw, Least(OpenBraces(raw))))))
    ELSE NoJsonFound

\* the first pattern, a fenced block: its group, which excludes the white
\* space next to the fences
FencedGroup(raw) ==
    IF Openings(raw) # {} /\ Closings(raw, Least(Openings(raw))) # {}
    THEN Extracted(Strip(SubSeq(raw, Least(Openings(raw)) + 1,
                                Least(Closings(raw, Least(Openings(raw)))) - 1)))
    ELSE NoJsonFound

\* _extract_json_from_response as it would be if it tried the braces first
ExtractJsonBracesFirst(raw_answer) ==
    IF ~BraceSpan(raw_answer).raised THEN BraceSpan(raw_answer)
    ELSE FencedGroup(raw_answer)

\* _extract_json_from_response
ExtractJson(raw_answer) ==
    IF ~FencedGroup(raw_answer).raised THEN FencedGroup(raw_answer)
    ELSE BraceSpan(raw_answer)

InitExtract ==
    /\ StoreInit
    /\ route = NoRoute
    /\ calc \in [fn : {"_extract_json_from_response"},
                 raw_answer : SeqsUpTo(ExtractTokens, MaxRaw),
                 done : {FALSE}, out : {NoJsonFound}]

ExtractJsonCall ==
    /\ calc.fn = "_extract_json_from_response"
    /\ ~calc.done
    /\ calc' = [calc EXCEPT !.done = TRUE, !.out = ExtractJson(calc.raw_answer)]
    /\ UNCHANGED <<storeVars, route>>

NextExtract == ExtractJsonCall

SpecExtract == InitExtract /\ [][NextExtract]_vars

ExtractDone == calc.fn = "_extract_json_from_response" /\ calc.done

\* the text between the first opening fence and the next three backticks
FirstFencedContent(raw) ==
    LET open == Least(Openings(raw))
    IN SubSeq(raw, open + 1, Least(Closings(raw, open)) - 1)

HasFencedBlock(raw) == \E i \in Openings(raw) : Closings(raw, i) # {}

HasBraceSpan(raw) == \E i \in OpenBraces(raw) : CloseBraces(raw, i) # {}

FirstToLastBrace(raw) ==
    SubSeq(raw, Least(OpenBraces(raw)), Greatest({j \in 1..Len(raw) : raw[j] = "}"}))

\* ---------------------------------------------------------------- C21
\* C21 (as stated): a text with a fenced JSON block gives exactly the content
\* of the first fenced block; otherwise a text with a { followed later by a }
\* gives the substring from the first { to the last }; otherwise the
\* extraction fails.
C21_ExtractExact ==
    ExtractDone
       => IF HasFencedBlock(calc.raw_answer)
          THEN calc.out = Extracted(FirstFencedContent(calc.raw_answer))
          ELSE IF HasBraceSpan(calc.raw_answer)
          THEN calc.out = Extracted(FirstToLastBrace(calc.raw_answer))
          ELSE calc.out.raised

\* C21 (amended): a text with a fenced JSON block gives the content of the
\* first fenced block without its leading and trailing white space; otherwise
\* a text with a { followed later by a } gives the substring from the first {
\* to the last }; otherwise the extraction fails.
C21_ExtractOrder ==
    ExtractDone
       => IF HasFencedBlock(calc.raw_answer)
          THEN LET content == FirstFencedContent(calc.raw_answer)
                   inner == {i \in 1..Len(content) : content[i] \notin Whitespace}
               IN calc.out = Extracted(IF inner = {} THEN <<>>
                                       ELSE SubSeq(content, Least(inner), Greatest(inner)))
          ELSE IF HasBraceSpan(calc.raw_answer)
          THEN calc.out = Extracted(FirstToLastBrace(calc.raw_answer))
          ELSE calc.out.raised

\* A fenced block whose content starts with white space and holds a brace:
\* the fenced content is returned, trimmed, and not the brace span.
C21_Witness ==
    /\ ExtractDone
    /\ HasFencedBlock(calc.raw_answer)
    /\ OpenBraces(calc.raw_answer) # {}
    /\ FirstFencedContent(calc.raw_answer) # <<>>
    /\ Head(FirstFencedContent(calc.raw_answer)) \in Whitespace
    /\ calc.out = Extracted(<<"{">>)

\* --------------------------------------- the category of a requirement
\* "category": null.  A missing key reads as the empty text, like "".
NullCategory == <<"None">>

\* no category or an empty one, null, the two kinds, a word that names no
\* kind, and a text that names both kinds
CategoryValues ==
    { <<>>, NullCategory, <<"Funcional">>, <<"No ", "Funcional">>, <<"NF">>,
      <<"otro">>, <<"Funcional", "/", "No ", "Funcional">> }

\* _format_requirements: None has no lower()
FormatRequirementsOf(requirements) ==
    IF \E i \in 1..Len(requirements) : requirements[i].category = NullCategory
    THEN [raised |-> TRUE, requirements |-> <<>>]
    ELSE [raised |-> FALSE, requirements |-> FormatRequirements(requirements)]

InitCategory ==
    /\ StoreInit
    /\ route = NoRoute
    /\ calc \in [fn : {"_format_requirements"},
                 items : SeqsUpTo([id : {NoId, <<"1">>}, category : CategoryValues,
                                   title : Titles], MaxItems),
                 done : {FALSE}, out : {[raised |-> FALSE, requirements |-> <<>>]}]

FormatRequirementsCall ==
    /\ calc.fn = "_format_requirements"
    /\ ~calc.done
    /\ calc' = [calc EXCEPT !.done = TRUE, !.out = FormatRequirementsOf(calc.items)]
    /\ UNCHANGED <<storeVars, route>>

NextCategory == FormatRequirementsCall

SpecCategory == InitCategory /\ [][NextCategory]_vars

\* ---------------------------------------------------------------- C26
\* C26: the prefix of a requirement's identifier follows its category alone:
\* REQ-NF- for a non-functional category, REQ- for a functional one, and REQ-
\* for a missing, empty or ambiguous category, and the reassignment does not
\* fail on such a category.
C26_PrefixByCategory ==
    (calc.fn = "_format_requirements" /\ calc.done)
       => /\ ~calc.out.raised
          /\ Len(calc.out.requirements) = Len(calc.items)
          /\ \A i \in 1..Len(calc.items) :
                LET id == calc.out.requirements[i].id
                    nf == StartsWith(id, <<"REQ-", "NF-">>)
                IN /\ StartsWith(id, <<"REQ-">>)
                   /\ calc.items[i].category \in {<<"No ", "Funcional">>, <<"NF">>} => nf
                   /\ calc.items[i].category \notin {<<"No ", "Funcional">>, <<"NF">>} => ~nf

\* ---------------------------------------------------------------- C28
\* C28: when the log of a session is exactly what saving its in-memory history
\* wrote, load_conversation_histories adds no turn to the session, also for a
\* query that ends in a newline as the batch prompts do.
C28_ReloadAddsNothing ==
    [][\A s \in DOMAIN conversations :
          ( /\ last_call'.op = "load_conversation_histories"
            /\ s \in DOMAIN files
            /\ files[s] = Concat(PendingWrites(History(s), 1)) )
          => /\ s \in DOMAIN conversations'
             /\ Len(conversations'[s].history) = Len(History(s))]_vars

\* ------------------------------------- load with files that cannot be read
\* load_conversation_histories; calc keeps which files failed to open or read
LoadWithFailures(unreadable) ==
    /\ unreadable # {} => ~faulted
    /\ faulted' = (faulted \/ unreadable # {})
    /\ conversations' = LoadAll(conversations, files, dirExists, unreadable)
    /\ last_call' = Call("load_conversation_histories", None, None, "none", "none")
    /\ calc' = [fn |-> "load_conversation_histories", failed |-> unreadable]
    /\ UNCHANGED <<files, dirExists, issued, appended, requests, route>>

NextLoad ==
    \/ \E arg \in KnownIds \cup {None} : CreateConversation(arg)
    \/ /\ appended < MaxIOTurns
       /\ \E s \in KnownIds, q \in Queries, a \in Answers :
              UpdateCall(s, q, a, None, "none", 0)
    \/ \E s \in KnownIds, fault \in {"none", "remove"} : DeleteConversationHistory(s, fault)
    \/ \E unreadable \in SUBSET (DOMAIN files) : LoadWithFailures(unreadable)

SpecLoad == Init /\ [][NextLoad]_vars

\* ---------------------------------------------------------------- C24
\* C24: a log file that cannot be read during load_conversation_histories is
\* skipped and the scan goes on: every other log file is loaded into its
\* session exactly as it would be without the failing file, and the session of
\* the failing file stays as it was.
C24_LoadFailureIsolated ==
    [][(last_call'.op = "load_conversation_histories"
          /\ calc'.fn = "load_conversation_histories")
          => /\ \A s \in DOMAIN files \ calc'.failed :
                   /\ dirExists => s \in DOMAIN conversations'
                   /\ s \in DOMAIN conversations'
                        => conversations'[s] = LoadSingle(conversations, s, files[s])
             /\ \A s \in calc'.failed :
                   IF s \in DOMAIN conversations
                   THEN s \in DOMAIN conversations' /\ conversations'[s] = conversations[s]
                   ELSE s \notin DOMAIN conversations']_vars

\* A load in which one file failed while the file of another session gave that
\* session a turn.
C24_Witness ==
    /\ last_call.op = "load_conversation_histories"
    /\ calc.fn = "load_conversation_histories"
    /\ calc.failed # {}
    /\ \E s \in DOMAIN files \ calc.failed :
          /\ s \in DOMAIN conversations
          /\ History(s) # <<>>
          /\ History(s)[Len(History(s))].timestamp = "Imported"

\* ------------------------------------------ blocks of one log file (parsing)
MaxBlocks == 3
BlockQueries == {<<"a">>, <<"b">>}
BlockKinds == {"ok", "no_query_label", "no_blank_line", "no_response_label"}

\* One block of a log file: a turn as save_conversation_history writes it
\* ("ok"), or the same text with one of the three marks _parse_conversation_entry
\* looks for taken out.
Blocks == [kind : BlockKinds, query : BlockQueries, response : {<<"x">>}]

BlockText(b) ==
    LET ts == <<"TS", "t", "NL">>
    IN CASE b.kind = "ok" ->
              EntryText([query |-> b.query, response |-> b.response,
                         timestamp |-> "t"])
         [] b.kind = "no_query_label" ->
              ts \o b.query \o <<"NL", "NL", "RS">> \o b.response \o <<"NL">>
                 \o EntrySeparator
         [] b.kind = "no_blank_line" ->
              ts \o <<"PQ">> \o b.query \o <<"NL", "RS">> \o b.response \o <<"NL">>
                 \o EntrySeparator
         [] OTHER ->
              ts \o <<"PQ">> \o b.query \o <<"NL", "NL">> \o b.response \o <<"NL">>
                 \o EntrySeparator

RECURSIVE FileOfBlocks(_)
FileOfBlocks(blocks) ==
    IF blocks = <<>> THEN <<>>
    ELSE BlockText(Head(blocks)) \o FileOfBlocks(Tail(blocks))

NotLoaded == <<[query |-> <<"NotLoaded">>, response |-> <<>>, timestamp |-> "NotLoaded"]>>

InitParse ==
    /\ StoreInit
    /\ route = NoRoute
    /\ calc \in [fn : {"_load_single_conversation_history"},
                 blocks : SeqsUpTo(Blocks, MaxBlocks),
                 done : {FALSE}, history : {NotLoaded}]

\* _load_single_conversation_history("s1") on a file holding the blocks, the
\* session not being in memory
LoadSingleCall ==
    /\ calc.fn = "_load_single_conversation_history"
    /\ ~calc.done
    /\ calc' = [calc EXCEPT !.done = TRUE,
                            !.history = LoadSingle(<<>>, "s1",
                                                   FileOfBlocks(calc.blocks)).history]
    /\ UNCHANGED <<conversations, files, dirExists, issued, last_call, faulted,
                   appended, requests, route>>

NextParse == LoadSingleCall

SpecParse == InitParse /\ [][NextParse]_vars

\* the well-formed blocks of a file, in file order
RECURSIVE WellFormed(_)
WellFormed(blocks) ==
    IF blocks = <<>> THEN <<>>
    ELSE (IF Head(blocks).kind = "ok" THEN <<Head(blocks)>> ELSE <<>>)
         \o WellFormed(Tail(blocks))

\* the turns a sequence of well-formed blocks stands for: one per query, the
\* first block of each query, in file order
RECURSIVE TurnsOf(_, _)
TurnsOf(history, blocks) ==
    IF blocks = <<>> THEN history
    ELSE LET b == Head(blocks)
             seen == \E i \in 1..Len(history) : history[i].query = b.query
         IN TurnsOf(IF seen THEN history
                    ELSE Append(history, [query |-> b.query, response |-> b.response,
                                          timestamp |-> "Imported"]),
                    Tail(blocks))

\* C25: within one log file, a block lacking the query label, the blank line
\* after the query or the response label is dropped without an error, and the
\* well-formed blocks before and after it are loaded, in file order: the
\* history loaded from the file is the one loaded from its well-formed blocks
\* alone.
C25_MalformedBlockDropped ==
    (calc.fn = "_load_single_conversation_history" /\ calc.done)
        => calc.history = TurnsOf(<<>>, WellFormed(calc.blocks))

\* a malformed block between two well-formed blocks of different queries, both
\* of which were loaded
C25_Witness ==
    /\ calc.fn = "_load_single_conversation_history"
    /\ calc.done
    /\ Len(calc.blocks) = 3
    /\ calc.blocks[1].kind = "ok"
    /\ calc.blocks[2].kind # "ok"
    /\ calc.blocks[3].kind = "ok"
    /\ calc.blocks[1].query # calc.blocks[3].query
    /\ Len(calc.history) = 2
    /\ calc.history[1].query = calc.blocks[1].query
    /\ calc.history[2].query = calc.blocks[3].query

\* ------------------------------------- a route request and the other sessions
\* Sessions the server created (uuid ids) take turns, then one request for
\* session s1 comes in on /generate-epics or /generate-user-stories.
NextIso ==
    \/ route.pc = "none" /\ \E arg \in ClientIds \cup {None} : CreateConversation(arg)
    \/ /\ route.pc = "none"
       /\ appended < MaxIOTurns
       /\ \E s \in issued, q \in Queries, a \in Answers :
              UpdateCall(s, q, a, None, "none", 0)
    \/ \E kind \in {"epicas", "historias_usuario"}, n \in 0..MaxInput : RouteReceive(kind, n)
    \/ RouteGenerate
    \/ RouteAwait
    \/ RouteCollect
    \/ RouteBatchRaised
    \/ RouteFinish

SpecIso == InitRoute /\ [][NextIso]_vars

NextDel ==
    \/ \E r \in Requests, arg \in KnownIds \cup {None}, newchat \in BOOLEAN,
          q \in Queries : GenStart(r, arg, newchat, q)
    \/ \E r \in Requests : GenPreparePrompt(r)
    \/ \E r \in Requests : GenSearchStep(r)
    \/ \E r \in Requests, raises \in BOOLEAN : GenInvoke(r, raises)
    \/ \E r \in Requests : GenSynthStep(r)
    \/ \E r \in Requests, a \in Answers, c \in Contexts \cup {None} :
          GenFinish(r, a, c, "none", 0)
    \/ \E s \in KnownIds : DeleteConversationHistory(s, "none")

SpecDel == Init /\ [][NextDel]_vars

\* C30: a request that resolved its session before it suspended completes even
\* when delete_conversation_history(session_id) runs while it is suspended: its
\* _update_conversation_history appends the turn and does not raise.
C30_CompletesAfterDelete ==
    \A r \in Requests : requests[r].pc # "raised_update"

====
